---- MODULE Spec2Model ----
(***************************************************************************)
(* A model of the cdi-wasm crate: the Ed25519 wallet (wallet.rs), the      *)
(* signed transaction envelope (signing.rs) and the tokenomics arithmetic  *)
(* (tokenomics.rs).                                                        *)
(*                                                                         *)
(* Representation.                                                         *)
(*   - A String / byte string is a sequence; a character is a one-letter   *)
(*     TLA+ string, a byte is a number in 0..255.                          *)
(*   - hex::encode / hex::decode are computed digit by digit.              *)
(*   - SHA-256 and Ed25519 are vendored primitives.  They are modelled as  *)
(*     ideal primitives over concrete bytes: Sha256 is a two-lane          *)
(*     polynomial digest (32 bytes out), a signature is the 64 bytes       *)
(*     R || S derived from the signing key and the message, and a          *)
(*     signature verifies under a public key exactly when it is the        *)
(*     signature the matching signing key produces for that message.       *)
(*   - An f64 is a record [k, neg, m]: k = "fin" is the value m/2 with     *)
(*     sign neg (so 10.5 is m = 21), k = "inf" and k = "nan" are the       *)
(*     non-finite values.                                                  *)
(*   - The f64 arithmetic of split_fee and shard_reward is computed bit    *)
(*     for bit: [k, neg, man, exp] is man * 2^exp with a 53-bit            *)
(*     significand kept as 13-bit limbs, rounded to nearest even.          *)
(*   - A JSON text is either not JSON at all ([json |-> FALSE]) or an      *)
(*     object: a function from its field names to JSON values.             *)
(***************************************************************************)
EXTENDS Integers, Sequences, FiniteSets, TLC

\* ------------------------------------------------------------------ text

RECURSIVE JoinWith(_, _)
\* the pieces of ss with the separator sep between neighbours
JoinWith(ss, sep) ==
    IF ss = <<>> THEN <<>>
    ELSE IF Len(ss) = 1 THEN ss[1]
    ELSE ss[1] \o sep \o JoinWith(Tail(ss), sep)

DecDigits == <<"0", "1", "2", "3", "4", "5", "6", "7", "8", "9">>

RECURSIVE DisplayNat(_)
\* Display of an unsigned integer: its decimal digits, no leading zero
DisplayNat(n) ==
    IF n < 10 THEN <<DecDigits[n + 1]>>
    ELSE DisplayNat(n \div 10) \o <<DecDigits[(n % 10) + 1]>>

\* ------------------------------------------------------------------- hex

HexLower == <<"0", "1", "2", "3", "4", "5", "6", "7", "8", "9",
              "a", "b", "c", "d", "e", "f">>
HexUpper == <<"0", "1", "2", "3", "4", "5", "6", "7", "8", "9",
              "A", "B", "C", "D", "E", "F">>

\* hex::encode: two lower-case digits per byte
HexEncode(bytes) ==
    [i \in 1..(2 * Len(bytes)) |->
        IF i % 2 = 1 THEN HexLower[(bytes[(i + 1) \div 2] \div 16) + 1]
        ELSE HexLower[(bytes[i \div 2] % 16) + 1]]

\* the value of each hex digit, in either case
HexValues ==
    [c \in {HexLower[v] : v \in 1..16} \cup {HexUpper[v] : v \in 1..16} |->
        (CHOOSE v \in 1..16 : HexLower[v] = c \/ HexUpper[v] = c) - 1]

IsHexDigit(c) == c \in DOMAIN HexValues

HexVal(c) == HexValues[c]

\* hex::decode: Err on an odd length or on a character that is no hex digit
\* (either case of a letter is accepted)
HexDecode(s) ==
    IF Len(s) % 2 # 0 \/ \E i \in 1..Len(s) : ~IsHexDigit(s[i])
    THEN [ok |-> FALSE, bytes |-> <<>>]
    ELSE [ok |-> TRUE,
          bytes |-> [i \in 1..(Len(s) \div 2) |->
                        16 * HexVal(s[2 * i - 1]) + HexVal(s[2 * i])]]

\* ---------------------------------------------------------------- SHA-256

RECURSIVE Poly(_, _, _, _, _)
\* the polynomial sum_i (bytes[i] + 1) * mul^(hi - i) over bytes[lo..hi],
\* mod prime, with mul^(hi - lo + 1): <<sum, power>>, by halving the range
Poly(bytes, lo, hi, mul, prime) ==
    IF lo > hi THEN <<0, 1>>
    ELSE IF lo = hi THEN <<(bytes[lo] + 1) % prime, mul % prime>>
    ELSE LET mid == (lo + hi) \div 2
             l   == Poly(bytes, lo, mid, mul, prime)
             r   == Poly(bytes, mid + 1, hi, mul, prime)
         IN  <<(l[1] * r[2] + r[1]) % prime, (l[2] * r[2]) % prime>>

\* one lane of the digest: h <- (h * mul + byte + 1) mod prime over the bytes
Lane(bytes, h, mul, prime) ==
    LET p == Poly(bytes, 1, Len(bytes), mul, prime)
    IN  (h * p[2] + p[1]) % prime

\* the digest bytes of two lanes
Spread(l1, l2) ==
    LET w == <<l1 \div 256, l1 % 256, l2 \div 256, l2 % 256>>
    IN  [i \in 1..32 |-> (w[((i - 1) % 4) + 1] + 17 * ((i - 1) \div 4)) % 256]

\* Sha256::new / update / finalize: the 32-byte digest of a byte string
Sha256(bytes) == Spread(Lane(bytes, 1, 31, 32749), Lane(bytes, 2, 37, 32719))

\* a String as its UTF-8 bytes: the model's characters are ASCII
CharCodes ==
    [c \in {"0", "1", "2", "3", "4", "5", "6", "7", "8", "9",
            "a", "b", "c", "d", "e", "f", "A", "B", "C", "D", "E", "F",
            ":", ".", "-", "_", "N", "i", "n", "r", "s", "t", "o", "y",
            "l", "h", "w", "p", "g", "z"} |->
        CASE c = "0" -> 48 [] c = "1" -> 49 [] c = "2" -> 50 [] c = "3" -> 51
          [] c = "4" -> 52 [] c = "5" -> 53 [] c = "6" -> 54 [] c = "7" -> 55
          [] c = "8" -> 56 [] c = "9" -> 57
          [] c = "a" -> 97 [] c = "b" -> 98 [] c = "c" -> 99 [] c = "d" -> 100
          [] c = "e" -> 101 [] c = "f" -> 102
          [] c = "A" -> 65 [] c = "B" -> 66 [] c = "C" -> 67 [] c = "D" -> 68
          [] c = "E" -> 69 [] c = "F" -> 70
          [] c = ":" -> 58 [] c = "." -> 46 [] c = "-" -> 45 [] c = "_" -> 95
          [] c = "N" -> 78 [] c = "i" -> 105 [] c = "n" -> 110 [] c = "r" -> 114
          [] c = "s" -> 115 [] c = "t" -> 116 [] c = "o" -> 111 [] c = "y" -> 121
          [] c = "l" -> 108 [] c = "h" -> 104 [] c = "w" -> 119 [] c = "p" -> 112
          [] c = "g" -> 103 [] c = "z" -> 122]

\* String::into_bytes
IntoBytes(s) == [i \in 1..Len(s) |-> CharCodes[s[i]]]

\* ---------------------------------------------------------------- Ed25519

\* the key length the wallet checks for: [u8; 32]
KeyLen == 32

\* the length Signature::from_slice accepts
SigLen == 64

\* the number of distinct keys the random source can produce
NumKeys == 2

\* SigningKey::generate(&mut OsRng): the key bytes drawn for one outcome of
\* the random source
SigningKeyOf(seed) == [i \in 1..KeyLen |-> (seed * 37 + i * 5) % 128]

\* SigningKey::verifying_key: the public key of a signing key
VerifyingKeyOf(sk) == [i \in 1..Len(sk) |-> (2 * sk[i]) % 256]

\* VerifyingKey::from_bytes succeeds only on the encoding of a curve point
IsCurvePoint(bytes) == \A i \in 1..Len(bytes) : bytes[i] % 2 = 0

\* the one signature (R || S) that verifies for a public key and a message
SignatureFor(pk, data) ==
    LET r == Sha256(pk \o data)
    IN  r \o Sha256(r \o pk)

\* SigningKey::sign
Ed25519Sign(sk, data) == SignatureFor(VerifyingKeyOf(sk), data)

\* VerifyingKey::verify(data, &sig).is_ok()
Ed25519Verify(pk, data, sig) == sig = SignatureFor(pk, data)

\* ----------------------------------------------------------------- wallet

\* CdiWallet::derive_peer_id: hex(SHA-256(raw public key))
derive_peer_id(vk) == HexEncode(Sha256(vk))

\* CdiWallet::generate
generate(seed) ==
    LET signing_key   == SigningKeyOf(seed)
        verifying_key == VerifyingKeyOf(signing_key)
        peer_id       == derive_peer_id(verifying_key)
    IN  [signing_key |-> signing_key, verifying_key |-> verifying_key,
         peer_id |-> peer_id]

get_peer_id(w) == w.peer_id

get_public_key_hex(w) == HexEncode(w.verifying_key)

\* CdiWallet::sign_data: the hex signature of the bytes
sign_data(w, data) == HexEncode(Ed25519Sign(w.signing_key, data))

\* verify_with_public_key without its length check
verify_with_public_key_NoLengthCheck(public_key_hex, data, signature_hex) ==
    LET pk  == HexDecode(public_key_hex)
        sig == HexDecode(signature_hex)
    IN  IF ~pk.ok THEN "false"
        ELSE IF Len(pk.bytes) # 32 THEN "panic"
        ELSE IF ~IsCurvePoint(pk.bytes) THEN "false"
        ELSE IF ~sig.ok THEN "false"
        ELSE IF Len(sig.bytes) # SigLen THEN "false"
        ELSE IF Ed25519Verify(pk.bytes, data, sig.bytes) THEN "true" ELSE "false"

\* CdiWallet::verify_with_public_key: "true" or "false"; "panic" is the
\* unwrap of try_into on a slice that is not 32 bytes long
verify_with_public_key(public_key_hex, data, signature_hex) ==
    LET pk  == HexDecode(public_key_hex)
        sig == HexDecode(signature_hex)
    IN  IF ~pk.ok THEN "false"
        ELSE IF Len(pk.bytes) # KeyLen THEN "false"
        ELSE IF Len(pk.bytes) # 32 THEN "panic"
        ELSE IF ~IsCurvePoint(pk.bytes) THEN "false"
        ELSE IF ~sig.ok THEN "false"
        ELSE IF Len(sig.bytes) # SigLen THEN "false"
        ELSE IF Ed25519Verify(pk.bytes, data, sig.bytes) THEN "true" ELSE "false"

\* CdiWallet::verify_data
verify_data(w, data, signature_hex) ==
    verify_with_public_key(get_public_key_hex(w), data, signature_hex)

\* -------------------------------------------------------------------- f64

F(m) == [k |-> "fin", neg |-> FALSE, m |-> m]
NegF(m) == [k |-> "fin", neg |-> TRUE, m |-> m]
NaN == [k |-> "nan", neg |-> FALSE, m |-> 0]
PosInf == [k |-> "inf", neg |-> FALSE, m |-> 0]

IsFinite(f) == f.k = "fin"

\* Display of an f64 ("{}"): the shortest decimal text, "10" for 10.0
DisplayF64(f) ==
    IF f.k = "nan" THEN <<"N", "a", "N">>
    ELSE (IF f.neg THEN <<"-">> ELSE <<>>) \o
         (IF f.k = "inf" THEN <<"i", "n", "f">>
          ELSE DisplayNat(f.m \div 2) \o (IF f.m % 2 = 1 THEN <<".", "5">> ELSE <<>>))

\* f64 as u64: the fraction is dropped, a negative value and NaN give 0,
\* +inf saturates at u64::MAX
AsU64(f) ==
    IF f.k = "nan" \/ f.neg THEN [max |-> FALSE, n |-> 0]
    ELSE IF f.k = "inf" THEN [max |-> TRUE, n |-> 0]
    ELSE [max |-> FALSE, n |-> f.m \div 2]

\* Display of a u64
DisplayU64(u) ==
    IF u.max
    THEN <<"1", "8", "4", "4", "6", "7", "4", "4", "0", "7",
           "3", "7", "0", "9", "5", "5", "1", "6", "1", "5">>
    ELSE DisplayNat(u.n)

\* ------------------------------------------------------------------- JSON

JStr(s) == [t |-> "str", s |-> s, f |-> NaN]
JNum(f) == [t |-> "num", s |-> <<>>, f |-> f]
JNull   == [t |-> "null", s |-> <<>>, f |-> NaN]
JAbsent == [t |-> "absent", s |-> <<>>, f |-> NaN]

\* serde_json writes a finite f64 as a number and a non-finite one as null
JF64(f) == IF IsFinite(f) THEN JNum(f) ELSE JNull

EnvelopeFields == {"tx_id", "from", "pub_key", "to", "amount", "tx_type",
                   "timestamp", "signature"}
WalletFields == {"public_key", "private_key", "peer_id"}
FieldNames == EnvelopeFields \cup WalletFields

\* a text that is not JSON ("not json", or the empty string)
NotJson == [json |-> FALSE, obj |-> [n \in FieldNames |-> JAbsent]]

\* the JSON object with the given members
JObject(members) ==
    [json |-> TRUE,
     obj |-> [n \in FieldNames |-> IF n \in DOMAIN members THEN members[n] ELSE JAbsent]]

\* "{}"
EmptyObject == [json |-> TRUE, obj |-> [n \in FieldNames |-> JAbsent]]

\* serde's derived Deserialize: every field of the struct present with the
\* JSON type of its Rust type (String: a string, f64: a number); members
\* the struct does not name are ignored
Deserializes(text, strings, numbers) ==
    /\ text.json
    /\ \A n \in strings : text.obj[n].t = "str"
    /\ \A n \in numbers : text.obj[n].t = "num"

\* ---------------------------------------------------------------- signing

\* signing_bytes that leaves the amount out
signing_bytes_NoAmount(tx) ==
    IntoBytes(JoinWith(<<tx.from, tx.to, tx.tx_type,
                         DisplayU64(AsU64(tx.timestamp))>>, <<":">>))

\* TransactionData::signing_bytes
signing_bytes(tx) ==
    IntoBytes(JoinWith(<<tx.from, tx.to, DisplayF64(tx.amount), tx.tx_type,
                         DisplayU64(AsU64(tx.timestamp))>>, <<":">>))

\* TransactionData::tx_id
tx_id(tx) == HexEncode(Sha256(signing_bytes(tx)))

\* serde_json::to_string(&SignedTransaction)
SignedTransactionToJson(signed) ==
    JObject([tx_id     |-> JStr(signed.tx_id),
             from      |-> JStr(signed.from),
             pub_key   |-> JStr(signed.pub_key),
             to        |-> JStr(signed.to),
             amount    |-> JF64(signed.amount),
             tx_type   |-> JStr(signed.tx_type),
             timestamp |-> JF64(signed.timestamp),
             signature |-> JStr(signed.signature)])

\* sign_transaction_core that names the sender by its public key
sign_transaction_core_PubKeyAsFrom(wallet, to, amount, tx_type, timestamp) ==
    LET tx_data == [from |-> get_public_key_hex(wallet), to |-> to, amount |-> amount,
                    tx_type |-> tx_type, timestamp |-> timestamp]
        sig     == sign_data(wallet, signing_bytes(tx_data))
        signed  == [tx_id |-> tx_id(tx_data), from |-> tx_data.from,
                    pub_key |-> get_public_key_hex(wallet), to |-> tx_data.to,
                    amount |-> tx_data.amount, tx_type |-> tx_data.tx_type,
                    timestamp |-> tx_data.timestamp, signature |-> sig]
    IN  SignedTransactionToJson(signed)

\* sign_transaction_core
sign_transaction_core(wallet, to, amount, tx_type, timestamp) ==
    LET tx_data == [from |-> get_peer_id(wallet), to |-> to, amount |-> amount,
                    tx_type |-> tx_type, timestamp |-> timestamp]
        sig     == sign_data(wallet, signing_bytes(tx_data))
        signed  == [tx_id |-> tx_id(tx_data), from |-> tx_data.from,
                    pub_key |-> get_public_key_hex(wallet), to |-> tx_data.to,
                    amount |-> tx_data.amount, tx_type |-> tx_data.tx_type,
                    timestamp |-> tx_data.timestamp, signature |-> sig]
    IN  SignedTransactionToJson(signed)

\* verify_transaction_core without the comparison of the sender with the
\* hash of the public key
verify_transaction_core_NoIdentityCheck(signed_tx_json) ==
    IF ~Deserializes(signed_tx_json,
                     {"tx_id", "from", "pub_key", "to", "tx_type", "signature"},
                     {"amount", "timestamp"})
    THEN "false"
    ELSE
      LET signed   == signed_tx_json.obj
          pk_bytes == HexDecode(signed["pub_key"].s)
      IN  IF ~pk_bytes.ok THEN "false"
          ELSE
            LET tx_data == [from |-> signed["from"].s, to |-> signed["to"].s,
                            amount |-> signed["amount"].f,
                            tx_type |-> signed["tx_type"].s,
                            timestamp |-> signed["timestamp"].f]
            IN  verify_with_public_key(signed["pub_key"].s, signing_bytes(tx_data),
                                       signed["signature"].s)

\* verify_transaction_core: "true", "false", or "panic"
verify_transaction_core(signed_tx_json) ==
    IF ~Deserializes(signed_tx_json,
                     {"tx_id", "from", "pub_key", "to", "tx_type", "signature"},
                     {"amount", "timestamp"})
    THEN "false"
    ELSE
      LET signed   == signed_tx_json.obj
          pk_bytes == HexDecode(signed["pub_key"].s)
      IN  IF ~pk_bytes.ok THEN "false"
          ELSE IF HexEncode(Sha256(pk_bytes.bytes)) # signed["from"].s THEN "false"
          ELSE
            LET tx_data == [from |-> signed["from"].s, to |-> signed["to"].s,
                            amount |-> signed["amount"].f,
                            tx_type |-> signed["tx_type"].s,
                            timestamp |-> signed["timestamp"].f]
            IN  verify_with_public_key(signed["pub_key"].s, signing_bytes(tx_data),
                                       signed["signature"].s)

\* ------------------------------------------------------- wallet documents

\* to_json with the two key fields filled from the wrong keys
to_json_SwappedKeys(w) ==
    JObject([public_key  |-> JStr(HexEncode(w.signing_key)),
             private_key |-> JStr(HexEncode(w.verifying_key)),
             peer_id     |-> JStr(w.peer_id)])

\* CdiWallet::to_json
to_json(w) ==
    JObject([public_key  |-> JStr(HexEncode(w.verifying_key)),
             private_key |-> JStr(HexEncode(w.signing_key)),
             peer_id     |-> JStr(w.peer_id)])

\* no wallet: the state before generate, and the payload of an Err
NoWallet == [signing_key |-> <<>>, verifying_key |-> <<>>, peer_id |-> <<>>]

\* from_json_str that keeps the document's peer_id
from_json_str_TrustsDocument(json) ==
    IF ~Deserializes(json, {"public_key", "private_key", "peer_id"}, {})
    THEN [ok |-> FALSE, err |-> "Invalid wallet JSON", wallet |-> NoWallet]
    ELSE
      LET priv_bytes == HexDecode(json.obj["private_key"].s)
      IN  IF ~priv_bytes.ok
          THEN [ok |-> FALSE, err |-> "Invalid private key hex", wallet |-> NoWallet]
          ELSE IF Len(priv_bytes.bytes) # KeyLen
          THEN [ok |-> FALSE, err |-> "Private key must be 32 bytes",
                wallet |-> NoWallet]
          ELSE [ok |-> TRUE, err |-> "",
                wallet |-> [signing_key |-> priv_bytes.bytes,
                            verifying_key |-> VerifyingKeyOf(priv_bytes.bytes),
                            peer_id |-> json.obj["peer_id"].s]]

\* CdiWallet::from_json_str: Ok(wallet) or Err(message)
from_json_str(json) ==
    IF ~Deserializes(json, {"public_key", "private_key", "peer_id"}, {})
    THEN [ok |-> FALSE, err |-> "Invalid wallet JSON", wallet |-> NoWallet]
    ELSE
      LET priv_bytes == HexDecode(json.obj["private_key"].s)
      IN  IF ~priv_bytes.ok
          THEN [ok |-> FALSE, err |-> "Invalid private key hex", wallet |-> NoWallet]
          ELSE IF Len(priv_bytes.bytes) # KeyLen
          THEN [ok |-> FALSE, err |-> "Private key must be 32 bytes",
                wallet |-> NoWallet]
          ELSE
            LET signing_key   == priv_bytes.bytes
                verifying_key == VerifyingKeyOf(signing_key)
                peer_id       == derive_peer_id(verifying_key)
            IN  [ok |-> TRUE, err |-> "",
                 wallet |-> [signing_key |-> signing_key,
                             verifying_key |-> verifying_key,
                             peer_id |-> peer_id]]

\* -------------------------------------------------------------- tokenomics
\* Integers wider than the checker's are kept as 16-bit limbs, most
\* significant first: a u32 is <<hi, lo>>, a u64 is four limbs.

GENESIS_BLOCK_REWARD == 50
\* IMPROVER_SHARE 0.06, in hundredths
IMPROVER_SHARE == 6
\* IMPROVER_DECAY 0.70, in tenths
IMPROVER_DECAY == 7

\* u32 as i32: the same 32 bits read as two's complement
AsI32(u) ==
    IF u[1] >= 32768 THEN (u[1] - 65536) * 65536 + u[2] ELSE u[1] * 65536 + u[2]

\* 2.0_f64.powi(e): 2^e, +inf above the largest f64, 0 below the smallest
\* subnormal
Powi2(e) ==
    IF e > 1023 THEN [k |-> "inf", m |-> 0, x |-> 0]
    ELSE IF e < -1074 THEN [k |-> "zero", m |-> 0, x |-> 0]
    ELSE [k |-> "fin", m |-> 1, x |-> e]

\* c / p for a power of two p: the value c * 2^x, +inf when it overflows
DivByPow2(c, p) ==
    IF p.k = "inf" THEN [k |-> "zero", m |-> 0, x |-> 0]
    ELSE IF p.k = "zero" \/ -p.x >= 1019 THEN [k |-> "inf", m |-> 0, x |-> 0]
    ELSE [k |-> "fin", m |-> c, x |-> -p.x]

RECURSIVE Pow2(_)
Pow2(n) == IF n = 0 THEN 1 ELSE 2 * Pow2(n - 1)

\* v < 1e-8 for v = m * 2^x: m * 5^8 * 2^(x + 8) < 1
LessThanMin(v) ==
    IF v.k = "zero" THEN TRUE
    ELSE IF v.k = "inf" THEN FALSE
    ELSE IF v.x + 8 >= 0 THEN FALSE
    ELSE IF -(v.x + 8) > 30 THEN TRUE
    ELSE v.m * 390625 < Pow2(-(v.x + 8))

\* the literal 1e-8
MinReward == [k |-> "min", m |-> 0, x |-> 0]

\* block_reward
block_reward(epoch) ==
    LET reward == DivByPow2(GENESIS_BLOCK_REWARD, Powi2(AsI32(epoch)))
    IN  IF LessThanMin(reward) THEN MinReward ELSE reward

\* x <= 0.0 for an f64 (false for NaN)
LeqZero(f) == f.k # "nan" /\ (f.neg \/ (f.k = "fin" /\ f.m = 0))

\* (ips * epoch_duration_secs) as u64, for positive or NaN factors
EpochLength(ips, secs) ==
    IF ips.k = "nan" \/ secs.k = "nan" THEN [max |-> FALSE, n |-> 0]
    ELSE IF ips.k = "inf" \/ secs.k = "inf" THEN [max |-> TRUE, n |-> 0]
    ELSE [max |-> FALSE, n |-> (ips.m * secs.m) \div 4]

U64Max == <<65535, 65535, 65535, 65535>>

RECURSIVE LongDiv(_, _, _, _)
\* the limbs of the quotient of the limbs from index i on, by a divisor
\* below 2^15, with the remainder carried in
LongDiv(limbs, i, rem, d) ==
    IF i > Len(limbs) THEN <<>>
    ELSE LET cur == rem * 65536 + limbs[i]
         IN  <<cur \div d>> \o LongDiv(limbs, i + 1, cur % d, d)

\* total_inferences / epoch_length, a u64
DivU64(total, len) ==
    IF len.max THEN (IF total = U64Max THEN <<0, 0, 0, 1>> ELSE <<0, 0, 0, 0>>)
    ELSE LongDiv(total, 1, 0, len.n)

\* u64 as u32: the low 32 bits
U64AsU32(q) == <<q[3], q[4]>>

\* current_epoch
current_epoch(total_inferences, ips, epoch_duration_secs) ==
    IF LeqZero(ips) \/ LeqZero(epoch_duration_secs) THEN <<0, 0>>
    ELSE LET epoch_length == EpochLength(ips, epoch_duration_secs)
         IN  IF ~epoch_length.max /\ epoch_length.n = 0 THEN <<0, 0>>
             ELSE U64AsU32(DivU64(total_inferences, epoch_length))

\* IMPROVER_DECAY.powi(e): 0.7^e, 0 below the smallest subnormal, +inf above
\* the largest f64
PowiDecay(e) ==
    IF e >= 2090 THEN [k |-> "zero", e |-> 0]
    ELSE IF e <= -1991 THEN [k |-> "inf", e |-> 0]
    ELSE [k |-> "fin", e |-> e]

\* improver_royalty_at_depth: the value (c / 100) * (IMPROVER_DECAY / 10)^e as
\* [k |-> "fin", c, e]; 0 * inf is NaN
improver_royalty_at_depth(total_fee, depth) ==
    LET improver_pool == total_fee * IMPROVER_SHARE
        p == PowiDecay(AsI32(depth))
    IN  IF p.k = "inf"
        THEN (IF improver_pool = 0 THEN [k |-> "nan", c |-> 0, e |-> 0]
              ELSE [k |-> "inf", c |-> improver_pool, e |-> 0])
        ELSE IF p.k = "zero" \/ improver_pool = 0 THEN [k |-> "zero", c |-> 0, e |-> 0]
        ELSE [k |-> "fin", c |-> improver_pool, e |-> p.e]

\* ---------------------------------------------------------------- binary64
\* The f64 arithmetic of split_fee and shard_reward, computed exactly:
\* [k, neg, man, exp] is (-1)^neg * man * 2^exp, with man a natural number
\* kept as ten 13-bit limbs, least significant first. A finite value has
\* either 2^52 <= man < 2^53 (normal) or exp = -1074 (subnormal, zero).

LimbIndex == 1..10

BigZero == [i \in LimbIndex |-> 0]

\* a natural number below 2^31 as limbs
BigOf(n) ==
    [i \in LimbIndex |->
        IF i = 1 THEN n % 8192
        ELSE IF i = 2 THEN (n \div 8192) % 8192
        ELSE IF i = 3 THEN n \div 67108864
        ELSE 0]

Limb(a, i) == IF i \in LimbIndex THEN a[i] ELSE 0

RECURSIVE Carry(_, _, _)
\* the limbs from index i on of the number with the digits wide, carry c
\* coming in; what carries out of the last limb is dropped
Carry(wide, i, c) ==
    IF i > 10 THEN <<>>
    ELSE <<(wide[i] + c) % 8192>> \o Carry(wide, i + 1, (wide[i] + c) \div 8192)

BigAdd(a, b) == Carry([i \in LimbIndex |-> a[i] + b[i]], 1, 0)

\* a - b for a >= b
BigSub(a, b) == Carry([i \in LimbIndex |-> a[i] + 8191 - b[i]], 1, 1)

BigEq(a, b) == \A i \in LimbIndex : a[i] = b[i]

BigLess(a, b) ==
    \E i \in LimbIndex : a[i] < b[i] /\ \A j \in LimbIndex : j > i => a[j] = b[j]

BigLeq(a, b) == BigEq(a, b) \/ BigLess(a, b)

\* a * b for a below 2^65
BigMul(a, b) ==
    Carry([k \in LimbIndex |->
              a[1] * Limb(b, k) + a[2] * Limb(b, k - 1) + a[3] * Limb(b, k - 2)
              + a[4] * Limb(b, k - 3) + a[5] * Limb(b, k - 4)], 1, 0)

\* the number of bits of a: 0 for 0
BitLen(a) ==
    IF BigEq(a, BigZero) THEN 0
    ELSE LET top == CHOOSE i \in LimbIndex :
                        a[i] # 0 /\ \A j \in LimbIndex : j > i => a[j] = 0
         IN  13 * (top - 1)
             + (CHOOSE n \in 1..13 : Pow2(n - 1) <= a[top] /\ a[top] < Pow2(n))

\* floor(a / 2^s)
ShiftRight(a, s) ==
    LET ls == s \div 13
        lo == Pow2(s % 13)
        hi == 8192 \div lo
    IN  [i \in LimbIndex |->
            (Limb(a, i + ls) \div lo) + (Limb(a, i + ls + 1) % lo) * hi]

\* a * 2^s, for a product below 2^130
ShiftLeft(a, s) ==
    LET ls == s \div 13
        lo == Pow2(s % 13)
        hi == 8192 \div lo
    IN  [i \in LimbIndex |->
            ((Limb(a, i - ls) * lo) % 8192) + (Limb(a, i - ls - 1) \div hi)]

B64Zero(neg) == [k |-> "fin", neg |-> neg, man |-> BigZero, exp |-> -1074]
B64Inf(neg) == [k |-> "inf", neg |-> neg, man |-> BigZero, exp |-> 0]
B64NaN == [k |-> "nan", neg |-> FALSE, man |-> BigZero, exp |-> 0]

B64IsZero(x) == x.k = "fin" /\ BigEq(x.man, BigZero)

\* the f64 nearest to (-1)^neg * m * 2^e, ties to the even significand:
\* 53 bits are kept, fewer below 2^-1022; +-inf from 2^1024 on
RoundF64(neg, m, e) ==
    LET len   == BitLen(m)
        shift == IF len - 53 > -1074 - e THEN len - 53 ELSE -1074 - e
        q     == ShiftRight(m, shift)
        rem   == BigSub(m, ShiftLeft(q, shift))
        half  == ShiftLeft(BigOf(1), shift - 1)
        up    == BigLess(half, rem) \/ (BigEq(half, rem) /\ q[1] % 2 = 1)
        q2    == IF up THEN BigAdd(q, BigOf(1)) ELSE q
        over  == BitLen(q2) = 54
        man   == IF shift <= 0 THEN ShiftLeft(m, -shift)
                 ELSE IF over THEN ShiftRight(q2, 1) ELSE q2
        exp   == IF shift > 0 /\ over THEN e + shift + 1 ELSE e + shift
    IN  IF len = 0 \/ shift > len + 1 THEN B64Zero(neg)
        ELSE IF BigEq(man, BigZero) THEN B64Zero(neg)
        ELSE IF BitLen(man) + exp > 1024 THEN B64Inf(neg)
        ELSE [k |-> "fin", neg |-> neg, man |-> man, exp |-> exp]

\* a small integer as an f64
B64Of(n) == RoundF64(n < 0, BigOf(IF n < 0 THEN -n ELSE n), 0)

\* a * b
B64Mul(a, b) ==
    IF a.k = "nan" \/ b.k = "nan" THEN B64NaN
    ELSE IF (a.k = "inf" /\ B64IsZero(b)) \/ (B64IsZero(a) /\ b.k = "inf") THEN B64NaN
    ELSE IF a.k = "inf" \/ b.k = "inf" THEN B64Inf(a.neg # b.neg)
    ELSE RoundF64(a.neg # b.neg, BigMul(a.man, b.man), a.exp + b.exp)

\* the top bits of a, from bit 36 up, for a below 2^67
TopBits(a) ==
    LET t == ShiftRight(a, 36)
    IN  t[1] + 8192 * t[2] + 67108864 * t[3]

\* one more limb of the quotient st.q of a division by d, 2^52 <= d < 2^53,
\* the remainder so far being st.r < d; the digit is found near the
\* quotient of the top bits
DivLimb(st, d) ==
    LET r2    == ShiftLeft(st.r, 13)
        qhat  == TopBits(r2) \div TopBits(d)
        digit == CHOOSE q \in (qhat - 2)..(qhat + 1) :
                    /\ q >= 0
                    /\ BigLeq(BigMul(BigOf(q), d), r2)
                    /\ BigLess(r2, BigMul(BigOf(q + 1), d))
    IN  [q |-> BigAdd(ShiftLeft(st.q, 13), BigOf(digit)),
         r |-> BigSub(r2, BigMul(BigOf(digit), d))]

\* a / b: five limbs of the quotient of the significands after its leading
\* bit, and one bit more that says whether a remainder is left
B64Div(a, b) ==
    IF a.k = "nan" \/ b.k = "nan" THEN B64NaN
    ELSE IF (a.k = "inf" /\ b.k = "inf") \/ (B64IsZero(a) /\ B64IsZero(b)) THEN B64NaN
    ELSE IF a.k = "inf" \/ B64IsZero(b) THEN B64Inf(a.neg # b.neg)
    ELSE IF b.k = "inf" \/ B64IsZero(a) THEN B64Zero(a.neg # b.neg)
    ELSE LET sa == 53 - BitLen(a.man)
             sb == 53 - BitLen(b.man)
             na == ShiftLeft(a.man, sa)
             nb == ShiftLeft(b.man, sb)
             q0 == BigLeq(nb, na)
             d0 == [q |-> BigOf(IF q0 THEN 1 ELSE 0),
                    r |-> IF q0 THEN BigSub(na, nb) ELSE na]
             d  == DivLimb(DivLimb(DivLimb(DivLimb(DivLimb(d0, nb), nb), nb), nb), nb)
             qs == BigAdd(BigAdd(d.q, d.q),
                          BigOf(IF BigEq(d.r, BigZero) THEN 0 ELSE 1))
         IN  RoundF64(a.neg # b.neg, qs, (a.exp - sa) - (b.exp - sb) - 66)

\* x <= 0.0 (false for NaN)
B64LeqZero(x) == x.k # "nan" /\ (x.neg \/ B64IsZero(x))

\* PROVIDER_SHARE: the f64 nearest to 0.85
PROVIDER_SHARE ==
    [k |-> "fin", neg |-> FALSE, exp |-> -53,
     man |-> <<4915, 6553, 3276, 5734, 1, 0, 0, 0, 0, 0>>]
\* CREATOR_SHARE: the f64 nearest to 0.09
CREATOR_SHARE ==
    [k |-> "fin", neg |-> FALSE, exp |-> -56,
     man |-> <<5898, 1310, 3932, 3604, 1, 0, 0, 0, 0, 0>>]
\* IMPROVER_SHARE as split_fee uses it: the f64 nearest to 0.06
ImproverShare ==
    [k |-> "fin", neg |-> FALSE, exp |-> -57,
     man |-> <<7864, 7208, 5242, 7536, 1, 0, 0, 0, 0, 0>>]

\* split_fee: the fields of the object returned
split_fee(total_fee) ==
    [provider |-> B64Mul(total_fee, PROVIDER_SHARE),
     creator  |-> B64Mul(total_fee, CREATOR_SHARE),
     improver |-> B64Mul(total_fee, ImproverShare),
     total    |-> total_fee]

\* the mutation of shard_reward that shares out the whole fee
shard_reward_WholeFee(total_fee, shard_compute_weight, total_compute_weight) ==
    IF B64LeqZero(total_compute_weight) THEN B64Zero(FALSE)
    ELSE B64Mul(total_fee, B64Div(shard_compute_weight, total_compute_weight))

\* shard_reward
shard_reward(total_fee, shard_compute_weight, total_compute_weight) ==
    IF B64LeqZero(total_compute_weight) THEN B64Zero(FALSE)
    ELSE LET provider_pool == B64Mul(total_fee, PROVIDER_SHARE)
         IN  B64Mul(provider_pool,
                    B64Div(shard_compute_weight, total_compute_weight))

\* ------------------------------------------------------------------ inputs

Str_b     == <<"b">>
Str_b1    == <<"b", ":", "1">>
Recipients == {Str_b, Str_b1}

Transfer     == <<"t", "r", "a", "n", "s", "f", "e", "r">>
InferenceFee == <<"i", "n", "f", "e", "r", "e", "n", "c", "e", "_", "f", "e", "e">>
ShardReward  == <<"s", "h", "a", "r", "d", "_", "r", "e", "w", "a", "r", "d">>
Royalty      == <<"r", "o", "y", "a", "l", "t", "y">>
\* the four kinds the envelope's comment names
CanonicalKinds == {Transfer, InferenceFee, ShardReward, Royalty}
\* tx_type is an open string: two kinds no list names
Kind_t  == <<"t">>
Kind_2t == <<"2", ":", "t">>
Kinds == CanonicalKinds \cup {Kind_t, Kind_2t}

\* 1, 10.5 and NaN
Amounts == {F(2), F(21), NaN}
\* 999, 1, 2 and -1
TamperAmounts == {F(1998), F(2), F(4), NegF(2)}

\* 0 and 3 (epoch milliseconds)
Timestamps == {F(0), F(6)}
\* 0.5, 3.5, 4 and -1
TamperTimestamps == {F(1), F(7), F(8), NegF(2)}

Payload_hello == IntoBytes(<<"h", "e", "l", "l", "o">>)
Payload_data  == IntoBytes(<<"d", "a", "t", "a">>)
Payloads == {Payload_hello, Payload_data}

Seeds == 1..NumKeys

\* epochs and depths up to this one, and the ends of the u32 range
MaxSmall == 40

\* 2^31 - 1, 2^31, 2^32 - 2, 2^32 - 1
U32Ends == {<<32767, 65535>>, <<32768, 0>>, <<65535, 65534>>, <<65535, 65535>>}
Epochs == {<<0, n>> : n \in 0..MaxSmall} \cup {<<0, 1023>>, <<0, 1024>>} \cup U32Ends
Depths == {<<0, n>> : n \in 0..3} \cup {<<0, 2089>>, <<0, 2090>>} \cup U32Ends

\* 0, 99, 100, 1000, 2^32 - 1, 2^32, 2^32 + 100, 2^64 - 1
Totals == {<<0, 0, 0, 0>>, <<0, 0, 0, 99>>, <<0, 0, 0, 100>>, <<0, 0, 0, 1000>>,
           <<0, 0, 65535, 65535>>, <<0, 1, 0, 0>>, <<0, 1, 0, 100>>, U64Max}
\* 0, 0.5, 1, 10, -1, NaN, +inf
Rates == {F(0), F(1), F(2), F(20), NegF(2), NaN, PosInf}
\* 0, 0.5, 1, 10
Durations == {F(0), F(1), F(2), F(20)}
Fees == {0, 1, 100, -100}

\* the shards of one inference: at most this many
MaxShards == 3

\* fees split and shared out: 100, 1, 7, -100, +inf
PayFees == {B64Of(100), B64Of(1), B64Of(7), B64Of(-100), B64Inf(FALSE)}
\* compute weights of a shard: 0, 1, 2, 5
ShardWeights == {B64Of(0), B64Of(1), B64Of(2), B64Of(5)}
\* total compute weights: -1, 0, 3, 6
TotalWeights == {B64Of(-1), B64Of(0), B64Of(3), B64Of(6)}

\* a string with its hex letters in upper case
UpperHex(s) ==
    [i \in 1..Len(s) |-> IF IsHexDigit(s[i]) THEN HexUpper[HexVal(s[i]) + 1] ELSE s[i]]

\* "not-hex"
NotHex == <<"n", "o", "t", "-", "h", "e", "x">>
\* "abcd": hex, two bytes
ShortHex == <<"a", "b", "c", "d">>

\* ------------------------------------------------------------------- state

VARIABLES
    wallet,     \* the CdiWallet this node holds (NoWallet before generate)
    text,       \* the JSON string in flight: a wallet document or an envelope
    origin,     \* how text came about: the call that wrote it, and the edit since
    msg,        \* a signed payload in flight: public key hex, data, signature hex
    imported,   \* the outcome of from_json_str on text
    result,     \* the outcome of the last verification call
    tok         \* the tokenomics calls made, oldest first: [fn, args, out]

vars == <<wallet, text, origin, msg, imported, result, tok>>

NoOrigin == [kind |-> "none", by |-> NoWallet, to |-> <<>>, amount |-> NaN,
             tx_type |-> <<>>, timestamp |-> NaN, edit |-> "none"]
NoMsg == [some |-> FALSE, pk |-> <<>>, data |-> <<>>, sig |-> <<>>,
          by |-> NoWallet, edit |-> "none"]
NoImport == [done |-> FALSE, ok |-> FALSE, err |-> "", wallet |-> NoWallet]
NoResult == [fn |-> "none", out |-> "none"]

Init ==
    /\ wallet = NoWallet
    /\ text = NotJson
    /\ origin = NoOrigin
    /\ msg = NoMsg
    /\ imported = NoImport
    /\ result = NoResult
    /\ tok = <<>>

\* nothing has been written yet: each run follows one document, envelope or
\* signed payload from the call that writes it to the calls that read it
Idle == origin.kind = "none" /\ ~msg.some

\* new CdiWallet(): the random source picks the key
Generate ==
    /\ wallet = NoWallet
    /\ \E seed \in Seeds : wallet' = generate(seed)
    /\ UNCHANGED <<text, origin, msg, imported, result, tok>>

\* wallet.export_json()
ToJson ==
    /\ wallet # NoWallet /\ Idle
    /\ text' = to_json(wallet)
    /\ origin' = [NoOrigin EXCEPT !.kind = "export", !.by = wallet]
    /\ msg' = NoMsg /\ imported' = NoImport /\ result' = NoResult
    /\ UNCHANGED <<wallet, tok>>

\* the stored document is edited by hand before it is imported
EditDocument ==
    /\ origin.kind = "export" /\ origin.edit = "none"
    /\ \E seed \in Seeds, edit \in {"peer_id", "public_key", "private_key",
                                       "private_key_upper", "private_key_not_hex",
                                       "private_key_short", "peer_id_missing",
                                       "not_json"} :
          LET w == generate(seed)
          IN  /\ (edit \in {"peer_id", "public_key", "private_key"}) => w # origin.by
              /\ (edit \notin {"peer_id", "public_key", "private_key"}) => w = origin.by
              /\ text' =
                   CASE edit = "peer_id" ->
                          [text EXCEPT !.obj["peer_id"] = JStr(w.peer_id)]
                     [] edit = "public_key" ->
                          [text EXCEPT !.obj["public_key"] = JStr(get_public_key_hex(w))]
                     [] edit = "private_key" ->
                          [text EXCEPT !.obj["private_key"] = JStr(HexEncode(w.signing_key))]
                     [] edit = "private_key_upper" ->
                          [text EXCEPT !.obj["private_key"] =
                                           JStr(UpperHex(text.obj["private_key"].s))]
                     [] edit = "private_key_not_hex" ->
                          [text EXCEPT !.obj["private_key"] = JStr(NotHex)]
                     [] edit = "private_key_short" ->
                          [text EXCEPT !.obj["private_key"] =
                                           JStr(SubSeq(text.obj["private_key"].s, 1, 62))]
                     [] edit = "peer_id_missing" ->
                          [text EXCEPT !.obj["peer_id"] = JAbsent]
                     [] edit = "not_json" -> NotJson
              /\ origin' = [origin EXCEPT !.edit = edit]
    /\ imported' = NoImport /\ result' = NoResult
    /\ UNCHANGED <<wallet, msg, tok>>

\* CdiWallet.fromJson(text)
FromJsonStr ==
    /\ ~imported.done /\ result = NoResult /\ origin.kind # "sign" /\ ~msg.some
    /\ LET r == from_json_str(text)
       IN  imported' = [done |-> TRUE, ok |-> r.ok, err |-> r.err, wallet |-> r.wallet]
    /\ UNCHANGED <<wallet, text, origin, msg, result, tok>>

\* signTransaction(wallet, to, amount, tx_type, timestamp)
SignTransaction ==
    /\ wallet # NoWallet /\ Idle
    /\ \E to \in Recipients, amount \in Amounts, tx_type \in Kinds,
          timestamp \in Timestamps :
          /\ text' = sign_transaction_core(wallet, to, amount, tx_type, timestamp)
          /\ origin' = [kind |-> "sign", by |-> wallet, to |-> to, amount |-> amount,
                        tx_type |-> tx_type, timestamp |-> timestamp, edit |-> "none"]
    /\ msg' = NoMsg /\ imported' = NoImport /\ result' = NoResult
    /\ UNCHANGED <<wallet, tok>>

\* what an edit of the envelope in flight leaves of the other variables
Edited(edit) ==
    /\ origin' = [origin EXCEPT !.edit = edit]
    /\ imported' = NoImport /\ result' = NoResult
    /\ UNCHANGED <<wallet, msg, tok>>

Untouched == origin.kind = "sign" /\ origin.edit = "none"

\* the amount of the envelope is replaced by another number
TamperAmount ==
    /\ Untouched
    /\ \E v \in TamperAmounts :
          /\ text.obj["amount"] # JNum(v)
          /\ text' = [text EXCEPT !.obj["amount"] = JNum(v)]
    /\ Edited("amount")

\* the timestamp of the envelope is replaced by another number
TamperTimestamp ==
    /\ Untouched
    /\ \E v \in TamperTimestamps :
          /\ text.obj["timestamp"] # JNum(v)
          /\ text' = [text EXCEPT !.obj["timestamp"] = JNum(v)]
    /\ Edited("timestamp")

\* the sender is replaced by another peer's identifier
TamperFrom ==
    /\ Untouched
    /\ \E seed \in Seeds :
          /\ generate(seed) # origin.by
          /\ text' = [text EXCEPT !.obj["from"] = JStr(get_peer_id(generate(seed)))]
    /\ Edited("from")

\* the canonical bytes of the envelope's own fields
EnvelopeBytes(obj) ==
    signing_bytes([from |-> obj["from"].s, to |-> obj["to"].s,
                   amount |-> obj["amount"].f, tx_type |-> obj["tx_type"].s,
                   timestamp |-> obj["timestamp"].f])

\* another key holder keeps the sender and signs the envelope's fields with
\* a key of their own, which they embed
Forge ==
    /\ Untouched
    /\ Deserializes(text, {}, {"amount", "timestamp"})
    /\ \E seed \in Seeds :
          LET attacker == generate(seed)
          IN  /\ attacker # origin.by
              /\ text' = [text EXCEPT
                            !.obj["pub_key"] = JStr(get_public_key_hex(attacker)),
                            !.obj["signature"] =
                                JStr(sign_data(attacker, EnvelopeBytes(text.obj)))]
    /\ Edited("forge")

\* recipient, amount and kind are replaced; the signature is kept
ReplaceIntent ==
    /\ Untouched
    /\ \E to \in Recipients, amount \in {F(2), F(4)}, tx_type \in {Kind_t, Kind_2t} :
          /\ <<to, amount, tx_type>> # <<origin.to, origin.amount, origin.tx_type>>
          /\ text' = [text EXCEPT !.obj["to"] = JStr(to),
                                   !.obj["amount"] = JNum(amount),
                                   !.obj["tx_type"] = JStr(tx_type)]
    /\ Edited("intent")

\* bytes that are the encoding of no curve point
OffCurve(bytes) == [bytes EXCEPT ![1] = (bytes[1] + 1) % 256]

\* the envelope arrives malformed
Corrupt ==
    /\ Untouched
    /\ \E edit \in {"pub_key_upper", "pub_key_not_hex", "pub_key_short",
                      "key_short", "key_off_curve", "signature_not_hex",
                      "signature_short", "signature_upper", "tx_id_missing",
                      "amount_string", "empty_object", "not_json"} :
          LET pk    == origin.by.verifying_key
              short == SubSeq(pk, 1, Len(pk) - 1)
          IN
          /\ text' =
               CASE edit = "pub_key_upper" ->
                      [text EXCEPT !.obj["pub_key"] = JStr(UpperHex(text.obj["pub_key"].s))]
                 [] edit = "pub_key_not_hex" ->
                      [text EXCEPT !.obj["pub_key"] = JStr(NotHex)]
                 [] edit = "pub_key_short" ->
                      [text EXCEPT !.obj["pub_key"] = JStr(HexEncode(short))]
                 [] edit = "key_short" ->
                      \* a 31-byte key, and the identifier that matches it
                      [text EXCEPT !.obj["pub_key"] = JStr(HexEncode(short)),
                                   !.obj["from"] = JStr(HexEncode(Sha256(short)))]
                 [] edit = "key_off_curve" ->
                      [text EXCEPT !.obj["pub_key"] = JStr(HexEncode(OffCurve(pk))),
                                   !.obj["from"] = JStr(HexEncode(Sha256(OffCurve(pk))))]
                 [] edit = "signature_not_hex" ->
                      [text EXCEPT !.obj["signature"] = JStr(NotHex)]
                 [] edit = "signature_short" ->
                      [text EXCEPT !.obj["signature"] = JStr(ShortHex)]
                 [] edit = "signature_upper" ->
                      [text EXCEPT !.obj["signature"] =
                                       JStr(UpperHex(text.obj["signature"].s))]
                 [] edit = "tx_id_missing" ->
                      [text EXCEPT !.obj["tx_id"] = JAbsent]
                 [] edit = "amount_string" ->
                      [text EXCEPT !.obj["amount"] = JStr(<<"1">>)]
                 [] edit = "empty_object" -> EmptyObject
                 [] edit = "not_json" -> NotJson
          /\ Edited(edit)

\* verifyTransaction(text)
VerifyTransaction ==
    /\ result = NoResult /\ ~imported.done
    /\ result' = [fn |-> "verify_transaction", out |-> verify_transaction_core(text)]
    /\ UNCHANGED <<wallet, text, origin, msg, imported, tok>>

\* wallet.sign(data): the signature travels with the data and the public key
SignData ==
    /\ wallet # NoWallet /\ Idle
    /\ \E data \in Payloads :
          msg' = [some |-> TRUE, pk |-> get_public_key_hex(wallet), data |-> data,
                  sig |-> sign_data(wallet, data), by |-> wallet, edit |-> "none"]
    /\ text' = NotJson /\ origin' = NoOrigin /\ imported' = NoImport
    /\ result' = NoResult
    /\ UNCHANGED <<wallet, tok>>

\* the signed payload arrives changed
TamperMessage ==
    /\ msg.some /\ msg.edit = "none"
    /\ \E edit \in {"pk_not_hex", "pk_short", "pk_off_curve", "pk_other", "pk_upper",
                      "sig_not_hex", "sig_short", "sig_odd", "sig_upper", "data"} :
          LET pk == msg.by.verifying_key
          IN
          msg' =
            [CASE edit = "pk_not_hex" -> [msg EXCEPT !.pk = NotHex]
               [] edit = "pk_short" ->
                    [msg EXCEPT !.pk = HexEncode(SubSeq(pk, 1, Len(pk) - 1))]
               [] edit = "pk_off_curve" -> [msg EXCEPT !.pk = HexEncode(OffCurve(pk))]
               [] edit = "pk_other" ->
                    [msg EXCEPT !.pk =
                        get_public_key_hex(
                            generate(CHOOSE seed \in Seeds : generate(seed) # msg.by))]
               [] edit = "pk_upper" -> [msg EXCEPT !.pk = UpperHex(msg.pk)]
               [] edit = "sig_not_hex" -> [msg EXCEPT !.sig = NotHex]
               [] edit = "sig_short" -> [msg EXCEPT !.sig = ShortHex]
               [] edit = "sig_odd" -> [msg EXCEPT !.sig = Tail(msg.sig)]
               [] edit = "sig_upper" -> [msg EXCEPT !.sig = UpperHex(msg.sig)]
               [] edit = "data" ->
                    [msg EXCEPT !.data = CHOOSE d \in Payloads : d # msg.data]
             EXCEPT !.edit = edit]
    /\ result' = NoResult
    /\ UNCHANGED <<wallet, text, origin, imported, tok>>

\* CdiWallet.verifyWithKey(pk, data, sig)
VerifyWithKey ==
    /\ msg.some /\ result.fn # "verify_with_public_key"
    /\ result' = [fn |-> "verify_with_public_key",
                  out |-> verify_with_public_key(msg.pk, msg.data, msg.sig)]
    /\ UNCHANGED <<wallet, text, origin, msg, imported, tok>>

\* wallet.verify(data, sig): against the wallet's own key
VerifyData ==
    /\ msg.some /\ wallet # NoWallet /\ result.fn # "verify_data"
    /\ result' = [fn |-> "verify_data", out |-> verify_data(wallet, msg.data, msg.sig)]
    /\ UNCHANGED <<wallet, text, origin, msg, imported, tok>>

\* a tokenomics call may be made: at most two in a run, both of the same
\* function
MayCall(fn) == Len(tok) < 2 /\ (tok # <<>> => tok[1].fn = fn)

\* blockReward(epoch)
BlockReward ==
    /\ MayCall("block_reward")
    /\ \E epoch \in Epochs :
          tok' = Append(tok, [fn |-> "block_reward", args |-> <<epoch>>,
                              out |-> block_reward(epoch)])
    /\ UNCHANGED <<wallet, text, origin, msg, imported, result>>

\* currentEpoch(total, ips, secs); a second call keeps the rate and duration
CurrentEpoch ==
    /\ MayCall("current_epoch")
    /\ \E total \in Totals, ips \in Rates, secs \in Durations :
          /\ tok # <<>> => (tok[1].args[2] = ips /\ tok[1].args[3] = secs)
          /\ tok' = Append(tok, [fn |-> "current_epoch", args |-> <<total, ips, secs>>,
                                 out |-> current_epoch(total, ips, secs)])
    /\ UNCHANGED <<wallet, text, origin, msg, imported, result>>

\* improverRoyaltyAtDepth(fee, depth); a second call keeps the fee
ImproverRoyalty ==
    /\ MayCall("improver_royalty_at_depth")
    /\ \E fee \in Fees, depth \in Depths :
          /\ tok # <<>> => tok[1].args[1] = fee
          /\ tok' = Append(tok, [fn |-> "improver_royalty_at_depth",
                                 args |-> <<fee, depth>>,
                                 out |-> improver_royalty_at_depth(fee, depth)])
    /\ UNCHANGED <<wallet, text, origin, msg, imported, result>>

\* splitFee(fee): the fee of one inference is split
CallSplitFee ==
    /\ tok = <<>>
    /\ \E fee \in PayFees :
          tok' = <<[fn |-> "split_fee", args |-> <<fee>>, out |-> split_fee(fee)]>>
    /\ UNCHANGED <<wallet, text, origin, msg, imported, result>>

\* shardReward(fee, weight, total): one more shard of the inference whose
\* fee was split is rewarded; the shards of an inference share its fee and
\* its total weight
CallShardReward ==
    /\ tok # <<>>
    /\ tok[1].fn = "split_fee"
    /\ Len(tok) <= MaxShards
    /\ \E weight \in ShardWeights, total \in TotalWeights :
          /\ Len(tok) > 1 => total = tok[2].args[3]
          /\ tok' = Append(tok, [fn |-> "shard_reward",
                                 args |-> <<tok[1].args[1], weight, total>>,
                                 out |-> shard_reward(tok[1].args[1], weight, total)])
    /\ UNCHANGED <<wallet, text, origin, msg, imported, result>>

NextPay ==
    \/ CallSplitFee
    \/ CallShardReward

SpecPay == Init /\ [][NextPay]_vars

NextTok ==
    \/ BlockReward
    \/ CurrentEpoch
    \/ ImproverRoyalty

SpecTok == Init /\ [][NextTok]_vars

Next ==
    \/ Generate
    \/ ToJson
    \/ EditDocument
    \/ FromJsonStr
    \/ SignTransaction
    \/ TamperAmount
    \/ TamperTimestamp
    \/ TamperFrom
    \/ Forge
    \/ ReplaceIntent
    \/ Corrupt
    \/ VerifyTransaction
    \/ SignData
    \/ TamperMessage
    \/ VerifyWithKey
    \/ VerifyData

Spec == Init /\ [][Next]_vars

\* ------------------------------------------------------------------ claims

Verified == result.fn = "verify_transaction"

EnvelopeParses ==
    Deserializes(text, {"tx_id", "from", "pub_key", "to", "tx_type", "signature"},
                 {"amount", "timestamp"})

\* C1: an envelope signed with a finite amount, a finite timestamp and one of
\* the four canonical kinds, and not changed since, verifies.
C1_SignThenVerify ==
    (/\ Verified
     /\ origin.kind = "sign" /\ origin.edit = "none"
     /\ IsFinite(origin.amount) /\ IsFinite(origin.timestamp)
     /\ origin.tx_type \in CanonicalKinds)
    => result.out = "true"

C1_Witness ==
    /\ Verified /\ origin.kind = "sign" /\ origin.edit = "none"
    /\ origin.amount = F(21) /\ origin.tx_type = ShardReward
    /\ origin.to = Str_b1
    /\ result.out = "true"

\* C2 as stated: an envelope whose amount or timestamp was replaced by a
\* different number (nothing else touched) does not verify.
C2_TamperedNumberFails ==
    (Verified /\ origin.kind = "sign" /\ origin.edit \in {"amount", "timestamp"})
    => result.out = "false"

\* C2 amended: an envelope whose amount was replaced by a different number,
\* or whose timestamp was replaced by a number with a different truncation
\* to u64, does not verify.
C2_TamperedNumberFailsAmended ==
    (/\ Verified /\ origin.kind = "sign"
     /\ \/ origin.edit = "amount"
        \/ /\ origin.edit = "timestamp"
           /\ AsU64(text.obj["timestamp"].f) # AsU64(origin.timestamp))
    => result.out = "false"

C2_Witness ==
    /\ Verified /\ origin.kind = "sign" /\ origin.edit = "amount"
    /\ IsFinite(origin.amount)
    /\ text.obj["amount"] = JNum(F(1998))
    /\ result.out = "false"

\* the sender of the envelope in flight is the hash of its public key
FromIsHashOfKey ==
    /\ HexDecode(text.obj["pub_key"].s).ok
    /\ text.obj["from"].s = HexEncode(Sha256(HexDecode(text.obj["pub_key"].s).bytes))

\* C3: an envelope whose from is not hex(SHA-256(decoded pub_key)) is
\* rejected, whatever its signature; every accepted envelope has
\* from = hash(pub_key).
C3_IdentityBoundToKey ==
    /\ (Verified /\ EnvelopeParses /\ ~FromIsHashOfKey) => result.out = "false"
    /\ (Verified /\ result.out = "true") => (EnvelopeParses /\ FromIsHashOfKey)

\* the rejected envelope carries a signature that is valid for its public
\* key over its own fields
C3_Witness ==
    /\ Verified /\ origin.edit = "forge" /\ EnvelopeParses
    /\ ~FromIsHashOfKey
    /\ verify_with_public_key(text.obj["pub_key"].s, EnvelopeBytes(text.obj),
                              text.obj["signature"].s) = "true"
    /\ result.out = "false"

\* a public key string that is not hex, not 32 bytes, or no curve point
BadKeyHex(s) ==
    \/ ~HexDecode(s).ok
    \/ Len(HexDecode(s).bytes) # KeyLen
    \/ ~IsCurvePoint(HexDecode(s).bytes)

\* a signature string that is not hex or not of signature length
BadSignatureHex(s) == ~HexDecode(s).ok \/ Len(HexDecode(s).bytes) # SigLen

\* C4: no verification call panics, and each returns false on a malformed
\* input: a text that is no envelope, a bad public key, a bad signature.
C4_VerificationTotal ==
    /\ result.out \in {"none", "true", "false"}
    /\ (Verified /\ ~EnvelopeParses) => result.out = "false"
    /\ (/\ Verified /\ EnvelopeParses
        /\ BadKeyHex(text.obj["pub_key"].s) \/ BadSignatureHex(text.obj["signature"].s))
       => result.out = "false"
    /\ (/\ result.fn = "verify_with_public_key"
        /\ BadKeyHex(msg.pk) \/ BadSignatureHex(msg.sig))
       => result.out = "false"
    /\ (result.fn = "verify_data" /\ BadSignatureHex(msg.sig)) => result.out = "false"

\* a 31-byte key whose hash is the sender: the length check is what rejects
C4_Witness ==
    /\ Verified /\ origin.edit = "key_short" /\ EnvelopeParses /\ FromIsHashOfKey
    /\ Len(HexDecode(text.obj["pub_key"].s).bytes) = KeyLen - 1
    /\ result.out = "false"

\* the wallet's peer_id and verifying key follow from its signing key
WellFormed(w) ==
    /\ w.verifying_key = VerifyingKeyOf(w.signing_key)
    /\ w.peer_id = HexEncode(Sha256(w.verifying_key))

\* C5: every wallet, generated or imported, has peer_id =
\* hex(SHA-256(verifying key)) and its verifying key derived from its signing
\* key; a document whose peer_id or public_key does not match its
\* private_key imports, and the two fields are recomputed.
C5_PeerIdDerived ==
    /\ wallet # NoWallet => WellFormed(wallet)
    /\ (imported.done /\ imported.ok) => WellFormed(imported.wallet)
    /\ (imported.done /\ origin.edit \in {"peer_id", "public_key"})
       => (imported.ok /\ imported.wallet = origin.by)

C5_Witness ==
    /\ imported.done /\ imported.ok /\ origin.edit = "peer_id"
    /\ text.obj["peer_id"].s # imported.wallet.peer_id
    /\ WellFormed(imported.wallet)

\* C6: importing what a wallet exported succeeds and gives a wallet with the
\* same peer id and public key, under which the exporter's signatures verify.
C6_ExportImportRoundTrip ==
    (imported.done /\ origin.kind = "export" /\ origin.edit = "none")
    => /\ imported.ok
       /\ get_peer_id(imported.wallet) = get_peer_id(origin.by)
       /\ get_public_key_hex(imported.wallet) = get_public_key_hex(origin.by)
       /\ \A data \in Payloads :
             verify_data(imported.wallet, data, sign_data(origin.by, data)) = "true"

C6_Witness ==
    /\ imported.done /\ imported.ok
    /\ origin.kind = "export" /\ origin.edit = "none"
    /\ text = to_json(origin.by)
    /\ get_peer_id(imported.wallet) = get_peer_id(wallet)

\* the tokenomics calls made of one function
CallsOf(fn) == {i \in 1..Len(tok) : tok[i].fn = fn}

U32Leq(a, b) == a[1] < b[1] \/ (a[1] = b[1] /\ a[2] <= b[2])

\* max(50 / 2^epoch, 1e-8) for the unsigned epoch: 50 * 2^(-epoch) while
\* that is at least 1e-8 (an epoch of 2^16 or more is far past that)
ExpectedBlockReward(epoch) ==
    LET v == [k |-> "fin", m |-> GENESIS_BLOCK_REWARD, x |-> -epoch[2]]
    IN  IF epoch[1] > 0 \/ LessThanMin(v) THEN MinReward ELSE v

\* a <= b for rewards: 0, 1e-8, GENESIS_BLOCK_REWARD * 2^x, +inf
RewardLeq(a, b) ==
    \/ a.k = "zero"
    \/ b.k = "inf"
    \/ a.k = "min" /\ (b.k = "min" \/ (b.k = "fin" /\ ~LessThanMin(b)))
    \/ a.k = "fin" /\ b.k = "min" /\ LessThanMin(a)
    \/ a.k = "fin" /\ b.k = "fin" /\ a.m = b.m /\ a.x <= b.x

\* C7: block_reward(epoch) = max(50 / 2^epoch, 1e-8) for every u32 epoch; it
\* never exceeds 50, never goes below 1e-8 and is non-increasing in epoch.
C7_BlockRewardFormula ==
    /\ \A i \in CallsOf("block_reward") :
          /\ tok[i].out = ExpectedBlockReward(tok[i].args[1])
          /\ RewardLeq(tok[i].out, [k |-> "fin", m |-> GENESIS_BLOCK_REWARD, x |-> 0])
          /\ RewardLeq(MinReward, tok[i].out)
    /\ \A i, j \in CallsOf("block_reward") :
          U32Leq(tok[i].args[1], tok[j].args[1]) => RewardLeq(tok[j].out, tok[i].out)

RECURSIVE LimbsLeq(_, _)
\* a <= b for unsigned integers given as limbs, most significant first
LimbsLeq(a, b) ==
    IF a = <<>> THEN TRUE
    ELSE IF Head(a) # Head(b) THEN Head(a) < Head(b)
    ELSE LimbsLeq(Tail(a), Tail(b))

\* floor(total / floor(ips * secs)) for finite factors, 0 when a factor is
\* not positive or the floor is 0: a u64
ExpectedEpoch(total, ips, secs) ==
    IF LeqZero(ips) \/ LeqZero(secs) \/ (ips.m * secs.m) \div 4 = 0
    THEN <<0, 0, 0, 0>>
    ELSE LongDiv(total, 1, 0, (ips.m * secs.m) \div 4)

\* C8: current_epoch returns 0 when ips <= 0, duration <= 0 or
\* floor(ips * duration) = 0, and floor(total / floor(ips * duration))
\* otherwise, for every u64 total; it never decreases as total grows.
C8_CurrentEpochFormula ==
    /\ \A i \in CallsOf("current_epoch") :
          (IsFinite(tok[i].args[2]) /\ IsFinite(tok[i].args[3]))
          => <<0, 0>> \o tok[i].out
               = ExpectedEpoch(tok[i].args[1], tok[i].args[2], tok[i].args[3])
    /\ \A i, j \in CallsOf("current_epoch") :
          LimbsLeq(tok[i].args[1], tok[j].args[1]) => U32Leq(tok[i].out, tok[j].out)

\* (fee * 0.06) * 0.70^depth for the unsigned depth; 0.70^depth is below
\* every positive f64 from depth 2090 on
ExpectedRoyalty(fee, depth) ==
    IF fee = 0 \/ depth[1] > 0 \/ depth[2] >= 2090
    THEN [k |-> "zero", c |-> 0, e |-> 0]
    ELSE [k |-> "fin", c |-> fee * IMPROVER_SHARE, e |-> depth[2]]

\* a <= b for royalties of one non-negative fee: the decay is below 1, so
\* the larger exponent is the smaller royalty
RoyaltyLeq(a, b) ==
    \/ a.k = "zero" /\ b.k \in {"zero", "fin", "inf"}
    \/ a.k \in {"zero", "fin", "inf"} /\ b.k = "inf"
    \/ a.k = "fin" /\ b.k = "fin" /\ a.c = b.c /\ IMPROVER_DECAY < 10 /\ a.e >= b.e

\* C9: improver_royalty_at_depth(fee, depth) = (fee * 0.06) * 0.70^depth for
\* every u32 depth; for fee >= 0 it never exceeds the pool fee * 0.06 and is
\* non-increasing in depth.
C9_RoyaltyFormula ==
    /\ \A i \in CallsOf("improver_royalty_at_depth") :
          /\ tok[i].out = ExpectedRoyalty(tok[i].args[1], tok[i].args[2])
          /\ tok[i].args[1] >= 0
             => RoyaltyLeq(tok[i].out, ExpectedRoyalty(tok[i].args[1], <<0, 0>>))
    /\ \A i, j \in CallsOf("improver_royalty_at_depth") :
          (tok[i].args[1] >= 0 /\ U32Leq(tok[i].args[2], tok[j].args[2]))
          => RoyaltyLeq(tok[j].out, tok[i].out)

\* the fields the canonical bytes are built from, the timestamp truncated
SignedFields(tx) ==
    <<tx.from, tx.to, tx.amount, tx.tx_type, AsU64(tx.timestamp)>>

\* what the wallet signed
SignedData ==
    [from |-> get_peer_id(origin.by), to |-> origin.to, amount |-> origin.amount,
     tx_type |-> origin.tx_type, timestamp |-> origin.timestamp]

\* the transaction data of the envelope in flight
EnvelopeData ==
    [from |-> text.obj["from"].s, to |-> text.obj["to"].s,
     amount |-> text.obj["amount"].f, tx_type |-> text.obj["tx_type"].s,
     timestamp |-> text.obj["timestamp"].f]

\* C10: transaction data that differ in sender, recipient, amount, kind or
\* truncated timestamp have different signing bytes and tx_id; a signature
\* accepted for one envelope is not accepted for an envelope with the same
\* pub_key and a different (to, amount, tx_type).
C10_SigningBytesInjective ==
    (/\ origin.kind = "sign" /\ EnvelopeParses
     /\ SignedFields(EnvelopeData) # SignedFields(SignedData))
    => /\ signing_bytes(EnvelopeData) # signing_bytes(SignedData)
       /\ tx_id(EnvelopeData) # tx_id(SignedData)
       /\ (Verified /\ origin.edit = "intent") => result.out = "false"

\* the shard_reward calls made for the inference whose fee was split
Shards == IF tok # <<>> /\ tok[1].fn = "split_fee" THEN 2..Len(tok) ELSE {}

\* the rewards paid to the shards, in call order
ShardRewards == [i \in 1..(Len(tok) - 1) |-> tok[i + 1].out]

\* the weights of the shards, in call order
ShardWeightsGiven == [i \in 1..(Len(tok) - 1) |-> tok[i + 1].args[2]]

\* the least exponent of the values of xs that are not zero
MinExp(xs) ==
    LET es == {xs[i].exp : i \in {j \in DOMAIN xs : ~B64IsZero(xs[j])}}
    IN  IF es = {} THEN 0 ELSE CHOOSE e \in es : \A f \in es : e <= f

\* |x| / 2^e0 for a finite x with x.exp >= e0
Scaled(x, e0) == IF B64IsZero(x) THEN BigZero ELSE ShiftLeft(x.man, x.exp - e0)

RECURSIVE SumScaled(_, _)
\* the sum of |x| / 2^e0 over the values of xs, exactly
SumScaled(xs, e0) ==
    IF xs = <<>> THEN BigZero
    ELSE BigAdd(Scaled(Head(xs), e0), SumScaled(Tail(xs), e0))

AllFinite(xs) == \A i \in DOMAIN xs : xs[i].k = "fin"

\* finite values that are zero or of the sign of target
SameSign(xs, target) ==
    \A i \in DOMAIN xs : B64IsZero(xs[i]) \/ xs[i].neg = target.neg

\* the values of xs sum to target, as real numbers; with infinities, as
\* extended real numbers
SumsTo(xs, target) ==
    IF AllFinite(xs \o <<target>>)
    THEN LET e0 == MinExp(xs \o <<target>>)
         IN  /\ SameSign(xs, target)
             /\ BigEq(SumScaled(xs, e0), Scaled(target, e0))
    ELSE /\ target.k = "inf"
         /\ \A i \in DOMAIN xs : xs[i].k # "nan"
         /\ \E i \in DOMAIN xs : xs[i].k = "inf"
         /\ \A i \in DOMAIN xs : xs[i].k = "inf" => xs[i].neg = target.neg

\* |a - b|
BigDist(a, b) == IF BigLeq(a, b) THEN BigSub(b, a) ELSE BigSub(a, b)

\* the finite values of xs sum to target to within |target| * 2^-51
SumsNear(xs, target) ==
    LET e0 == MinExp(xs \o <<target>>)
    IN  /\ AllFinite(xs \o <<target>>)
        /\ SameSign(xs, target)
        /\ BigLeq(ShiftLeft(BigDist(SumScaled(xs, e0), Scaled(target, e0)), 51),
                  Scaled(target, e0))

\* the shares of the fee split
Shares == <<tok[1].out.provider, tok[1].out.creator, tok[1].out.improver>>

\* the total weight the shards were rewarded against
TotalWeightGiven == tok[2].args[3]

\* C11 as stated: for shards with non-negative weights that sum to a total
\* weight above 0, the shard rewards sum to the provider share of split_fee,
\* and provider + creator + improver = the fee; with a total weight of 0 or
\* less every shard reward is 0.
C11_PayoutsConserved ==
    Shards # {} =>
       /\ SumsTo(Shares, tok[1].out.total)
       /\ B64LeqZero(TotalWeightGiven)
          => \A i \in Shards : B64IsZero(tok[i].out)
       /\ (~B64LeqZero(TotalWeightGiven) /\ SumsTo(ShardWeightsGiven, TotalWeightGiven))
          => SumsTo(ShardRewards, tok[1].out.provider)

\* C11 amended: for a finite fee, the shard rewards sum to the provider
\* share to within |provider| * 2^-51, and the three shares sum to the fee
\* to within |fee| * 2^-51; with a total weight of 0 or less every shard
\* reward is 0.
C11_PayoutsConservedAmended ==
    Shards # {} =>
       /\ B64LeqZero(TotalWeightGiven)
          => \A i \in Shards : B64IsZero(tok[i].out)
       /\ tok[1].args[1].k = "fin"
          => /\ SumsNear(Shares, tok[1].out.total)
             /\ (/\ ~B64LeqZero(TotalWeightGiven)
                 /\ SumsTo(ShardWeightsGiven, TotalWeightGiven))
                => SumsNear(ShardRewards, tok[1].out.provider)

\* a fee of 100 shared by weights 1 and 5 of 6: the rewards miss the
\* provider share, by less than the bound
C11_Witness ==
    /\ Len(tok) = 3 /\ tok[1].fn = "split_fee"
    /\ tok[1].args[1] = B64Of(100)
    /\ TotalWeightGiven = B64Of(6)
    /\ ShardWeightsGiven = <<B64Of(1), B64Of(5)>>
    /\ ~SumsTo(ShardRewards, tok[1].out.provider)
    /\ SumsNear(ShardRewards, tok[1].out.provider)

====
